---- MODULE Spec2Model ----
(***************************************************************************)
(* Model of tracker.py: one monitoring run downloads a JSON document,      *)
(* fingerprints it, compares the fingerprint with last_hash.txt and, on a  *)
(* difference, writes snapshots/tour_<UTC second>.json and then rewrites   *)
(* last_hash.txt.                                                          *)
(*                                                                         *)
(* Text is a sequence of one-character strings.  A JSON value is a record  *)
(* [kind, num, items]; an object keeps its members in insertion order, as  *)
(* a Python dict does.  A file is a record [exists, text].                 *)
(***************************************************************************)
EXTENDS Integers, Sequences, FiniteSets, TLC

\* ------------------------------------------------------------------ bounds
\* number of runs of main that are started in a behaviour
MaxRuns == 3
\* last clock reading, in ticks
MaxNow == 2
\* clock ticks per UTC second (strftime drops everything below the second)
TicksPerSecond == 2

\* the processes that can execute main
Procs == {1, 2}

\* ------------------------------------------------------------- JSON values
Num(n) == [kind |-> "num", num |-> n, items |-> <<>>]
Obj(members) == [kind |-> "obj", num |-> 0, items |-> members]
Pair(k, v) == [key |-> k, val |-> v]

\* the value of  data  before download_json has returned
NoData == [kind |-> "none", num |-> 0, items |-> <<>>]

\* {"b":2,"a":1}
DocBA == Obj(<<Pair("b", Num(2)), Pair("a", Num(1))>>)
\* {"a":1,"b":2}
DocAB == Obj(<<Pair("a", Num(1)), Pair("b", Num(2))>>)
\* {"n":{"y":1,"x":2},"a":1}
DocNest == Obj(<<Pair("n", Obj(<<Pair("y", Num(1)), Pair("x", Num(2))>>)), Pair("a", Num(1))>>)
\* {"n":{"x":2,"y":1},"a":1}
DocNestInner == Obj(<<Pair("n", Obj(<<Pair("x", Num(2)), Pair("y", Num(1))>>)), Pair("a", Num(1))>>)

\* the bodies the remote URL can answer with
Documents == {DocBA, DocAB, DocNest, DocNestInner}

\* Python's == on parsed JSON: dicts are equal when they have the same keys
\* with equal values, whatever the insertion order
RECURSIVE SameValue(_, _)
SameValue(x, y) ==
    IF x.kind # y.kind THEN FALSE
    ELSE IF x.kind # "obj" THEN x.num = y.num
    ELSE /\ Len(x.items) = Len(y.items)
         /\ \A i \in 1..Len(x.items) :
               \E j \in 1..Len(y.items) :
                  /\ x.items[i].key = y.items[j].key
                  /\ SameValue(x.items[i].val, y.items[j].val)

\* ------------------------------------------------------------------- text
\* Unicode code points of the characters that occur
CodePoint ==
    ("\n" :> 10) @@ (" " :> 32) @@ ("\"" :> 34) @@ ("," :> 44) @@
    ("0" :> 48) @@ ("1" :> 49) @@ ("2" :> 50) @@ ("3" :> 51) @@ ("4" :> 52) @@
    ("5" :> 53) @@ ("6" :> 54) @@ ("7" :> 55) @@ ("8" :> 56) @@ ("9" :> 57) @@
    (":" :> 58) @@ ("a" :> 97) @@ ("b" :> 98) @@ ("c" :> 99) @@ ("d" :> 100) @@
    ("e" :> 101) @@ ("f" :> 102) @@ ("n" :> 110) @@ ("x" :> 120) @@
    ("y" :> 121) @@ ("{" :> 123) @@ ("}" :> 125)

\* str.encode('utf-8') on ASCII text: one byte per character
EncodeUtf8(s) == [i \in 1..Len(s) |-> CodePoint[s[i]]]

Whitespace == {" ", "\n", "\t", "\r"}

RECURSIVE LStrip(_)
LStrip(s) == IF s # <<>> /\ Head(s) \in Whitespace THEN LStrip(Tail(s)) ELSE s

RECURSIVE RStrip(_)
RStrip(s) ==
    IF s # <<>> /\ s[Len(s)] \in Whitespace THEN RStrip(SubSeq(s, 1, Len(s) - 1)) ELSE s

\* str.strip()
Strip(s) == RStrip(LStrip(s))

RECURSIVE Spaces(_)
Spaces(n) == IF n <= 0 THEN <<>> ELSE <<" ">> \o Spaces(n - 1)

\* str(int) for the one-digit numbers that occur
IntStr(n) == <<<<"0", "1", "2", "3", "4", "5", "6", "7", "8", "9">>[n + 1]>>

\* ------------------------------------------------------------- json.dumps
\* order of str keys: by code point (one-character keys)
KeyLess(k1, k2) == CodePoint[k1] < CodePoint[k2]

\* sorted(dct.items()): the member with the least key first
RECURSIVE SortItems(_)
SortItems(members) ==
    IF members = <<>> THEN <<>>
    ELSE LET m == CHOOSE i \in 1..Len(members) :
                     \A j \in 1..Len(members) :
                        j # i => KeyLess(members[i].key, members[j].key)
             rest == [i \in 1..(Len(members) - 1) |->
                         IF i < m THEN members[i] ELSE members[i + 1]]
         IN  <<members[m]>> \o SortItems(rest)

\* indent |-> -1 stands for indent=None
RECURSIVE Dumps(_, _, _, _, _)
RECURSIVE DumpsItems(_, _, _, _, _, _)
DumpsItems(members, i, sort_keys, indent, separators, level) ==
    LET newline == IF indent < 0 THEN <<>> ELSE <<"\n">> \o Spaces(indent * level)
        one == newline \o <<"\"", members[i].key, "\"">> \o separators[2]
                 \o Dumps(members[i].val, sort_keys, indent, separators, level)
    IN  IF i = Len(members) THEN one
        ELSE one \o separators[1]
               \o DumpsItems(members, i + 1, sort_keys, indent, separators, level)

Dumps(o, sort_keys, indent, separators, level) ==
    IF o.kind = "num" THEN IntStr(o.num)
    ELSE IF o.items = <<>> THEN <<"{", "}">>
    ELSE LET members == IF sort_keys THEN SortItems(o.items) ELSE o.items
             closing == IF indent < 0 THEN <<>> ELSE <<"\n">> \o Spaces(indent * level)
         IN  <<"{">> \o DumpsItems(members, 1, sort_keys, indent, separators, level + 1)
                \o closing \o <<"}">>

\* ---------------------------------------------------------------- sha256
\* the digest is modelled by a 16-bit polynomial checksum of the bytes,
\* printed as lowercase hex; it is collision-free on Documents (NoCollision)
DigestMod == 16 * 16 * 16 * 16

RECURSIVE Digest(_, _)
Digest(bytes, h) ==
    IF bytes = <<>> THEN h
    ELSE Digest(Tail(bytes), (h * 31 + Head(bytes)) % DigestMod)

HexChars == <<"0", "1", "2", "3", "4", "5", "6", "7", "8", "9", "a", "b", "c", "d", "e", "f">>

\* hashlib.sha256(bytes).hexdigest()
Sha256Hex(bytes) ==
    LET n == Digest(bytes, 7)
    IN  << HexChars[((n \div 4096) % 16) + 1], HexChars[((n \div 256) % 16) + 1],
           HexChars[((n \div 16) % 16) + 1], HexChars[(n % 16) + 1] >>

\* ------------------------------------------------------ tracker functions
\* mutant: sort_keys is left out
calculate_hash_unsorted(d) ==
    LET json_str == Dumps(d, FALSE, -1, << <<",">>, <<":">> >>, 0)
    IN  Sha256Hex(EncodeUtf8(json_str))

calculate_hash(d) ==
    LET json_str == Dumps(d, TRUE, -1, << <<",">>, <<":">> >>, 0)
    IN  Sha256Hex(EncodeUtf8(json_str))

NoFile == [exists |-> FALSE, text |-> <<>>]
File(t) == [exists |-> TRUE, text |-> t]

\* mutant: the text is returned as read, without strip()
read_last_hash_nostrip(file) == IF file.exists THEN file.text ELSE <<>>

read_last_hash(file) == IF file.exists THEN Strip(file.text) ELSE <<>>

\* the content save_hash writes
save_hash(hash_value) == File(hash_value \o <<"\n">>)

\* mutant: the file is left before the text is complete
SnapshotText_unfinished(d) ==
    LET text == Dumps(d, TRUE, 2, << <<",">>, <<":", " ">> >>, 0) \o <<"\n">>
    IN  SubSeq(text, 1, Len(text) \div 2)

\* the text save_snapshot writes: json.dump(..., indent=2, sort_keys=True), "\n"
SnapshotText(d) == Dumps(d, TRUE, 2, << <<",">>, <<":", " ">> >>, 0) \o <<"\n">>

\* --------------------------------------------------------------- json.load
\* what parsing a text yields when the text is not JSON
ParseError == [kind |-> "error", num |-> 0, items |-> <<>>]

Digits == {"0", "1", "2", "3", "4", "5", "6", "7", "8", "9"}

\* a parse result: the value read and the text after it
Parsed(v, rest) == [ok |-> TRUE, val |-> v, rest |-> rest]
Failed == [ok |-> FALSE, val |-> ParseError, rest |-> <<>>]

\* the decoder for the texts Dumps produces: one-digit numbers and objects
\* with one-character keys, with any whitespace between the tokens
RECURSIVE ParseValue(_)
RECURSIVE ParseMembers(_, _)
ParseMembers(s0, members) ==
    LET s == LStrip(s0)
    IN  IF Len(s) < 3 \/ s[1] # "\"" \/ s[3] # "\"" THEN Failed
        ELSE LET afterKey == LStrip(SubSeq(s, 4, Len(s)))
             IN  IF afterKey = <<>> \/ Head(afterKey) # ":" THEN Failed
                 ELSE LET v == ParseValue(Tail(afterKey))
                          after == LStrip(v.rest)
                          all == Append(members, Pair(s[2], v.val))
                      IN  IF ~v.ok \/ after = <<>> THEN Failed
                          ELSE IF Head(after) = "}" THEN Parsed(Obj(all), Tail(after))
                          ELSE IF Head(after) = "," THEN ParseMembers(Tail(after), all)
                          ELSE Failed

ParseValue(s0) ==
    LET s == LStrip(s0)
    IN  IF s = <<>> THEN Failed
        ELSE IF Head(s) \in Digits THEN Parsed(Num(CodePoint[Head(s)] - 48), Tail(s))
        ELSE IF Head(s) # "{" THEN Failed
        ELSE LET body == LStrip(Tail(s))
             IN  IF body # <<>> /\ Head(body) = "}" THEN Parsed(Obj(<<>>), Tail(body))
                 ELSE ParseMembers(body, <<>>)

\* json.load of a file's text: one value and nothing but whitespace after it
json_load(text) ==
    LET v == ParseValue(text)
    IN  IF v.ok /\ LStrip(v.rest) = <<>> THEN v.val ELSE ParseError

\* strftime("%Y%m%d_%H%M%S"): the UTC second of the clock reading
Timestamp(t) == t \div TicksPerSecond

SnapshotNames == {Timestamp(t) : t \in 0..MaxNow}

\* ------------------------------------------------------------------ state
VARIABLES
    now,            \* the UTC clock, in ticks
    last_hash_file, \* last_hash.txt
    snapshots_dir,  \* whether snapshots/ exists
    snapshots,      \* snapshots/tour_<name>.json for every name
    pc,             \* position of each process in main
    data,           \* main's local  data
    current_hash,   \* main's local  current_hash
    last_hash,      \* main's local  last_hash
    out,            \* the lines the run has printed, by kind
    error,          \* the exception the run has met, "none" if none
    started,        \* history: runs started so far
    pre_record,     \* history: last_hash.txt when the run started
    pre_snapshots,  \* history: snapshots/ when the run started
    nsnap,          \* history: save_snapshot calls the run completed
    nhash,          \* history: save_hash calls the run completed
    saved,          \* history: documents whose snapshot write completed
    prev,           \* history: summary of the run that ended last
    stable,         \* history: the document of the first run that ended without
                    \* failure if every download since returned it, else NoData
    overlapped      \* history: whether the run was in progress together with
                    \* another run

vars == <<now, last_hash_file, snapshots_dir, snapshots, pc, data, current_hash,
          last_hash, out, error, started, pre_record, pre_snapshots, nsnap,
          nhash, saved, prev, stable, overlapped>>

store == <<last_hash_file, snapshots_dir, snapshots>>
locals == <<data, current_hash, last_hash>>
history == <<started, pre_record, pre_snapshots, nsnap, nhash, saved, prev>>
tracking == <<stable, overlapped>>

Terminal == {"Unchanged", "Done", "Aborted", "Raised"}

\* the run ended without any failure
Succeeded(result) == result \in {"Done", "Unchanged"}

\* exceptions download_json can raise
FetchErrors == {"ConnectionError", "Timeout", "HTTPError", "JSONDecodeError"}

\* the failure kind of the error taxonomy an exception belongs to
ErrorKind(e) == IF e = "JSONDecodeError" THEN "DecodeError" ELSE "TransportError"

\* the except clause that catches e.  Response.json() raises a subclass of
\* RequestException in current releases of requests and a plain ValueError in
\* older ones, so either clause can catch a decode failure.
Handlers(e) ==
    IF e = "JSONDecodeError" THEN {"Error downloading data", "Unexpected error"}
    ELSE {"Error downloading data"}

NoPrev == [valid |-> FALSE, doc |-> NoData, hash |-> <<>>, last_hash |-> <<>>,
           result |-> "idle", error |-> "none", overlapped |-> FALSE,
           nsnap |-> 0, nhash |-> 0, record_before |-> NoFile, record_after |-> NoFile,
           files_before |-> 0]

\* number of files in a snapshots directory
FileCount(dir) == Cardinality({n \in SnapshotNames : dir[n].exists})

Init ==
    /\ now = 0
    /\ last_hash_file = NoFile
    /\ snapshots_dir = FALSE
    /\ snapshots = [n \in SnapshotNames |-> NoFile]
    /\ pc = [r \in Procs |-> "idle"]
    /\ data = [r \in Procs |-> NoData]
    /\ current_hash = [r \in Procs |-> <<>>]
    /\ last_hash = [r \in Procs |-> <<>>]
    /\ out = [r \in Procs |-> <<>>]
    /\ error = [r \in Procs |-> "none"]
    /\ started = 0
    /\ pre_record = [r \in Procs |-> NoFile]
    /\ pre_snapshots = [r \in Procs |-> [n \in SnapshotNames |-> NoFile]]
    /\ nsnap = [r \in Procs |-> 0]
    /\ nhash = [r \in Procs |-> 0]
    /\ saved = {}
    /\ prev = NoPrev
    /\ stable = NoData
    /\ overlapped = [r \in Procs |-> FALSE]

\* ---------------------------------------------------------------- actions
\* the clock advances
Tick ==
    /\ now < MaxNow
    /\ now' = now + 1
    /\ UNCHANGED <<tracking, store, pc, locals, out, error, history>>

\* main is invoked: paths are set up and the URL is printed
Start(r) ==
    /\ pc[r] = "idle"
    /\ started < MaxRuns
    /\ pc' = [pc EXCEPT ![r] = "Fetching"]
    /\ out' = [out EXCEPT ![r] = <<"Downloading data">>]
    /\ started' = started + 1
    /\ pre_record' = [pre_record EXCEPT ![r] = last_hash_file]
    /\ pre_snapshots' = [pre_snapshots EXCEPT ![r] = snapshots]
    /\ overlapped' = [q \in Procs |->
                         IF q = r THEN \E o \in Procs \ {r} : pc[o] # "idle"
                         ELSE overlapped[q] \/ pc[q] # "idle"]
    /\ UNCHANGED <<now, store, locals, error, nsnap, nhash, saved, prev, stable>>

\* runs are serialized: main starts only when no other run is in progress
StartSerial(r) ==
    /\ \A q \in Procs \ {r} : pc[q] = "idle"
    /\ Start(r)

\* download_json returns the parsed body d
download_json(r, d) ==
    /\ pc[r] = "Fetching"
    /\ data' = [data EXCEPT ![r] = d]
    /\ pc' = [pc EXCEPT ![r] = "Hashing"]
    /\ stable' = IF stable # NoData /\ ~SameValue(d, stable) THEN NoData ELSE stable
    /\ UNCHANGED <<now, store, current_hash, last_hash, out, error, history, overlapped>>

\* mutant: a failed download clears the fingerprint record
download_failed_clears(r, e, line) ==
    /\ pc[r] = "Fetching"
    /\ line \in Handlers(e)
    /\ out' = [out EXCEPT ![r] = Append(@, line)]
    /\ error' = [error EXCEPT ![r] = ErrorKind(e)]
    /\ pc' = [pc EXCEPT ![r] = "Aborted"]
    /\ last_hash_file' = save_hash(<<>>)
    /\ UNCHANGED <<tracking, now, snapshots_dir, snapshots, locals, history>>

\* download_json raises e; main prints the error and returns
download_failed(r, e, line) ==
    /\ pc[r] = "Fetching"
    /\ line \in Handlers(e)
    /\ out' = [out EXCEPT ![r] = Append(@, line)]
    /\ error' = [error EXCEPT ![r] = ErrorKind(e)]
    /\ pc' = [pc EXCEPT ![r] = "Aborted"]
    /\ UNCHANGED <<tracking, now, store, locals, history>>

\* current_hash = calculate_hash(data)
Hashing(r) ==
    /\ pc[r] = "Hashing"
    /\ current_hash' = [current_hash EXCEPT ![r] = calculate_hash(data[r])]
    /\ pc' = [pc EXCEPT ![r] = "Comparing"]
    /\ UNCHANGED <<tracking, now, store, data, last_hash, out, error, history>>

\* last_hash = read_last_hash(...), the two hashes are printed, and main
\* branches on  changed
CompareStep(r, lh, changed) ==
    /\ pc[r] = "Comparing"
    /\ last_hash' = [last_hash EXCEPT ![r] = lh]
    /\ IF changed
       THEN /\ out' = [out EXCEPT ![r] =
                         @ \o <<"Current hash", "Last hash", "Data has changed!">>]
            /\ pc' = [pc EXCEPT ![r] = "Persisting"]
       ELSE /\ out' = [out EXCEPT ![r] =
                         @ \o <<"Current hash", "Last hash", "No changes detected">>]
            /\ pc' = [pc EXCEPT ![r] = "Unchanged"]
    /\ UNCHANGED <<tracking, now, store, data, current_hash, error, history>>

\* mutant: an empty stored hash is taken for "nothing to compare with"
Comparing_skips_first(r) ==
    LET lh == read_last_hash(last_hash_file)
    IN  CompareStep(r, lh, lh # <<>> /\ current_hash[r] # lh)

\* mutant: the comparison is lost and every run persists
Comparing_always_changed(r) ==
    CompareStep(r, read_last_hash(last_hash_file), TRUE)

\* if current_hash != last_hash
Comparing(r) ==
    LET lh == read_last_hash(last_hash_file)
    IN  CompareStep(r, lh, current_hash[r] # lh)

\* read_text raises (the record exists and cannot be read); nothing in main
\* catches it
read_last_hash_failed(r) ==
    /\ pc[r] = "Comparing"
    /\ last_hash_file.exists
    /\ error' = [error EXCEPT ![r] = "IOError reading the fingerprint record"]
    /\ pc' = [pc EXCEPT ![r] = "Raised"]
    /\ UNCHANGED <<tracking, now, store, locals, out, history>>

\* save_snapshot(data, snapshots_dir) completes
save_snapshot(r) ==
    /\ pc[r] = "Persisting"
    /\ snapshots_dir' = TRUE
    /\ snapshots' = [snapshots EXCEPT ![Timestamp(now)] = File(SnapshotText(data[r]))]
    /\ out' = [out EXCEPT ![r] = Append(@, "Snapshot saved")]
    /\ nsnap' = [nsnap EXCEPT ![r] = @ + 1]
    /\ saved' = saved \cup {data[r]}
    /\ pc' = [pc EXCEPT ![r] = "PersistingHash"]
    /\ UNCHANGED <<tracking, now, last_hash_file, locals, error, started, pre_record,
                   pre_snapshots, nhash, prev>>

\* how much of a text of length len can be in the file when the write fails:
\* nothing, or its first half
PartialLengths(len) == {0, len \div 2}

\* mutant: the failure of save_snapshot is swallowed and main goes on
save_snapshot_failed_swallowed(r, stage, n) ==
    /\ pc[r] = "Persisting"
    /\ stage = "mkdir"
    /\ ~snapshots_dir
    /\ n = 0
    /\ error' = [error EXCEPT ![r] = "IOError writing the snapshot"]
    /\ pc' = [pc EXCEPT ![r] = "PersistingHash"]
    /\ UNCHANGED <<tracking, now, store, locals, out, history>>

\* save_snapshot raises: in mkdir, in open, or while the text is written
\* (the file is then created or truncated and holds the first n characters)
save_snapshot_failed(r, stage, n) ==
    /\ pc[r] = "Persisting"
    /\ \/ /\ stage = "mkdir"
          /\ ~snapshots_dir
          /\ n = 0
          /\ UNCHANGED <<snapshots_dir, snapshots>>
       \/ /\ stage = "open"
          /\ n = 0
          /\ snapshots_dir' = TRUE
          /\ UNCHANGED snapshots
       \/ /\ stage = "write"
          /\ n \in PartialLengths(Len(SnapshotText(data[r])))
          /\ snapshots_dir' = TRUE
          /\ snapshots' = [snapshots EXCEPT ![Timestamp(now)] =
                                File(SubSeq(SnapshotText(data[r]), 1, n))]
    /\ error' = [error EXCEPT ![r] = "IOError writing the snapshot"]
    /\ pc' = [pc EXCEPT ![r] = "Raised"]
    /\ UNCHANGED <<tracking, now, last_hash_file, locals, out, history>>

\* mutant: the record is not written
save_hash_skipped(r) ==
    /\ pc[r] = "PersistingHash"
    /\ out' = [out EXCEPT ![r] = Append(@, "Hash updated successfully")]
    /\ nhash' = [nhash EXCEPT ![r] = @ + 1]
    /\ pc' = [pc EXCEPT ![r] = "Done"]
    /\ UNCHANGED <<tracking, now, store, locals, error, started, pre_record, pre_snapshots,
                   nsnap, saved, prev>>

\* mutant: the hash that was read is saved instead of the computed one
save_hash_stale(r) ==
    /\ pc[r] = "PersistingHash"
    /\ last_hash_file' = save_hash(last_hash[r])
    /\ out' = [out EXCEPT ![r] = Append(@, "Hash updated successfully")]
    /\ nhash' = [nhash EXCEPT ![r] = @ + 1]
    /\ pc' = [pc EXCEPT ![r] = "Done"]
    /\ UNCHANGED <<tracking, now, snapshots_dir, snapshots, locals, error, started,
                   pre_record, pre_snapshots, nsnap, saved, prev>>

\* save_hash(last_hash_file, current_hash) completes, success is printed
save_hash_done(r) ==
    /\ pc[r] = "PersistingHash"
    /\ last_hash_file' = save_hash(current_hash[r])
    /\ out' = [out EXCEPT ![r] = Append(@, "Hash updated successfully")]
    /\ nhash' = [nhash EXCEPT ![r] = @ + 1]
    /\ pc' = [pc EXCEPT ![r] = "Done"]
    /\ UNCHANGED <<tracking, now, snapshots_dir, snapshots, locals, error, started,
                   pre_record, pre_snapshots, nsnap, saved, prev>>

\* write_text raises: in open (nothing happened), or in the write after open
\* has truncated the record.  The digest and its newline go to the file in
\* one write call, so a failed write leaves none of them behind.
save_hash_failed(r, stage) ==
    /\ pc[r] = "PersistingHash"
    /\ \/ /\ stage = "open"
          /\ UNCHANGED last_hash_file
       \/ /\ stage = "write"
          /\ last_hash_file' = File(<<>>)
    /\ error' = [error EXCEPT ![r] = "IOError writing the fingerprint record"]
    /\ pc' = [pc EXCEPT ![r] = "Raised"]
    /\ UNCHANGED <<tracking, now, snapshots_dir, snapshots, locals, out, history>>

\* the process ends; its run becomes the previous run
Exit(r) ==
    /\ pc[r] \in Terminal
    /\ prev' = [valid |-> TRUE, doc |-> data[r], hash |-> current_hash[r],
                last_hash |-> last_hash[r],
                result |-> pc[r], error |-> error[r], overlapped |-> overlapped[r],
                nsnap |-> nsnap[r], nhash |-> nhash[r],
                record_before |-> pre_record[r], record_after |-> last_hash_file,
                files_before |-> FileCount(pre_snapshots[r])]
    /\ pc' = [pc EXCEPT ![r] = "idle"]
    /\ data' = [data EXCEPT ![r] = NoData]
    /\ current_hash' = [current_hash EXCEPT ![r] = <<>>]
    /\ last_hash' = [last_hash EXCEPT ![r] = <<>>]
    /\ out' = [out EXCEPT ![r] = <<>>]
    /\ error' = [error EXCEPT ![r] = "none"]
    /\ pre_record' = [pre_record EXCEPT ![r] = NoFile]
    /\ pre_snapshots' = [pre_snapshots EXCEPT ![r] = [n \in SnapshotNames |-> NoFile]]
    /\ nsnap' = [nsnap EXCEPT ![r] = 0]
    /\ nhash' = [nhash EXCEPT ![r] = 0]
    /\ stable' = IF Succeeded(pc[r]) /\ stable = NoData THEN data[r] ELSE stable
    /\ overlapped' = [overlapped EXCEPT ![r] = FALSE]
    /\ UNCHANGED <<now, store, started, saved>>

\* one step of main in process r
main(r) ==
    \/ \E d \in Documents : download_json(r, d)
    \/ \E e \in FetchErrors : \E line \in Handlers(e) : download_failed(r, e, line)
    \/ Hashing(r)
    \/ Comparing(r)
    \/ read_last_hash_failed(r)
    \/ save_snapshot(r)
    \/ \E stage \in {"mkdir", "open", "write"} :
          \E n \in PartialLengths(Len(SnapshotText(data[r]))) :
             save_snapshot_failed(r, stage, n)
    \/ save_hash_done(r)
    \/ \E stage \in {"open", "write"} : save_hash_failed(r, stage)
    \/ Exit(r)

Next ==
    \/ Tick
    \/ \E r \in Procs : StartSerial(r)
    \/ \E r \in Procs : main(r)

\* serialized runs, any failure at any step
Spec == Init /\ [][Next]_vars

\* the scheduler does not serialize: main can start while a run is in progress
StartOverlap(r) ==
    /\ started < MaxRuns - 1
    /\ Start(r)

\* one step of main in process r when neither the network nor the
\* filesystem fails
main_ok(r) ==
    \/ \E d \in Documents : download_json(r, d)
    \/ Hashing(r)
    \/ Comparing(r)
    \/ save_snapshot(r)
    \/ save_hash_done(r)
    \/ Exit(r)

NextOverlap ==
    \/ Tick
    \/ \E r \in Procs : StartOverlap(r)
    \/ \E r \in Procs : main_ok(r)

\* runs that may overlap, without failures
SpecOverlap == Init /\ [][NextOverlap]_vars

\* ----------------------------------------------------------- model sanity
\* the modelled digest separates the documents as SHA-256 does
NoCollision ==
    \A d1, d2 \in Documents :
        calculate_hash(d1) = calculate_hash(d2) => SameValue(d1, d2)
\* ------------------------------------------------------------ properties
\* the run has read the record and compared (it has printed "Last hash")
Compared(r) == Len(out[r]) >= 3

\* the record as read_last_hash returns it
Record == read_last_hash(last_hash_file)

\* the snapshot files that hold a complete snapshot
Complete(file) == file.exists /\ \E d \in Documents : file.text = SnapshotText(d)

\* C1: a run whose download failed (transport or decode error) has written
\* no snapshot and no fingerprint, and last_hash.txt (its absence included)
\* and snapshots/ are what they were when the run started
C1_FailureIsolation ==
    \A r \in Procs :
        error[r] \in {"TransportError", "DecodeError"} =>
            /\ pc[r] = "Aborted"
            /\ nsnap[r] = 0 /\ nhash[r] = 0
            /\ last_hash_file = pre_record[r]
            /\ snapshots = pre_snapshots[r]

C1_Witness ==
    \E r \in Procs :
        /\ pc[r] = "Aborted"
        /\ error[r] = "DecodeError"
        /\ Record # <<>>
        /\ FileCount(snapshots) > 0

\* C2: save_hash is reached only after save_snapshot has completed in the
\* same run, a run whose save_snapshot failed never calls save_hash, and a
\* non-empty record is the fingerprint of a document whose snapshot write
\* completed before
C2_SnapshotBeforeFingerprint ==
    /\ \A r \in Procs :
          /\ (pc[r] = "PersistingHash" \/ nhash[r] > 0) => nsnap[r] > 0
          /\ error[r] = "IOError writing the snapshot" =>
                /\ pc[r] = "Raised"
                /\ nhash[r] = 0
                /\ last_hash_file = pre_record[r]
    /\ Record # <<>> => \E d \in saved : Record = calculate_hash(d)

C2_Witness ==
    \E r \in Procs :
        /\ error[r] = "IOError writing the snapshot"
        /\ Record # <<>>
        /\ Record # calculate_hash(data[r])

\* C3 (as claimed): two successive successful runs on documents A and B of
\* different content, the first started with a record other than
\* fingerprint(A), leave two more snapshot files than there were and the
\* record fingerprint(B)
C3_ChangeDetection ==
    \A r \in Procs :
        ( /\ Succeeded(pc[r])
          /\ prev.valid /\ Succeeded(prev.result)
          /\ ~SameValue(prev.doc, data[r])
          /\ read_last_hash(prev.record_before) # calculate_hash(prev.doc) )
        => /\ FileCount(snapshots) = prev.files_before + 2
           /\ Record = calculate_hash(data[r])

\* C4 (as claimed): no step changes or removes a snapshot file that holds a
\* complete snapshot
C4_SnapshotImmutable ==
    [][\A n \in SnapshotNames : Complete(snapshots[n]) => snapshots'[n] = snapshots[n]]_vars

\* C5 (as claimed): two successive successful runs on the same document
\* write exactly one snapshot, in the first run, and the second run leaves
\* the record as the first left it
C5_Idempotence ==
    \A r \in Procs :
        ( /\ Succeeded(pc[r])
          /\ prev.valid /\ Succeeded(prev.result)
          /\ SameValue(prev.doc, data[r]) )
        => /\ prev.nsnap = 1 /\ nsnap[r] = 0
           /\ nhash[r] = 0
           /\ last_hash_file = prev.record_after

\* C5 (amended): the same, for a first run that started with a record other
\* than the fingerprint of the document
C5_IdempotenceFromChanged ==
    \A r \in Procs :
        ( /\ Succeeded(pc[r])
          /\ prev.valid /\ Succeeded(prev.result)
          /\ SameValue(prev.doc, data[r])
          /\ read_last_hash(prev.record_before) # calculate_hash(prev.doc) )
        => /\ prev.nsnap = 1 /\ nsnap[r] = 0
           /\ nhash[r] = 0
           /\ last_hash_file = prev.record_after

C5_Witness ==
    \E r \in Procs :
        /\ pc[r] = "Unchanged"
        /\ prev.valid /\ prev.result = "Done"
        /\ SameValue(prev.doc, data[r])
        /\ prev.record_before.exists

\* C6: a run started without a record reads the empty string, never ends in
\* Unchanged, and when it succeeds it has written one snapshot and one
\* fingerprint and the record is the fingerprint of the fetched document
C6_FirstRun ==
    \A r \in Procs :
        (pc[r] # "idle" /\ ~pre_record[r].exists) =>
            /\ Compared(r) => last_hash[r] = <<>>
            /\ pc[r] # "Unchanged"
            /\ pc[r] = "Done" =>
                  /\ nsnap[r] = 1 /\ nhash[r] = 1
                  /\ Record = calculate_hash(data[r])

C6_Witness ==
    \E r \in Procs : pc[r] = "Done" /\ ~pre_record[r].exists /\ nsnap[r] = 1

\* C7 (as claimed): whatever failure a run meets, main has printed a
\* description of it and returned; no exception leaves main
C7_AllErrorsCaught ==
    \A r \in Procs :
        error[r] # "none" =>
            /\ pc[r] = "Aborted"
            /\ out[r][Len(out[r])] \in {"Error downloading data", "Unexpected error"}

\* C8: a run whose fingerprint equals the one it read reports no changes and
\* ends in Unchanged with no save_snapshot and no save_hash, the snapshot
\* files and the record being what they were at its start; and snapshots/ is
\* written only by a run whose fingerprint differs from the one it read
C8_UnchangedNoOp ==
    \A r \in Procs :
        /\ (Compared(r) /\ current_hash[r] = last_hash[r]) =>
              /\ pc[r] = "Unchanged"
              /\ out[r][Len(out[r])] = "No changes detected"
              /\ nsnap[r] = 0 /\ nhash[r] = 0
              /\ snapshots = pre_snapshots[r]
              /\ last_hash_file = pre_record[r]
        /\ pc[r] = "Unchanged" => (Compared(r) /\ current_hash[r] = last_hash[r])
        /\ (pc[r] # "idle" /\ (nsnap[r] > 0 \/ snapshots # pre_snapshots[r])) =>
              (Compared(r) /\ current_hash[r] # last_hash[r])

C8_Witness ==
    \E r \in Procs :
        /\ pc[r] = "Unchanged"
        /\ current_hash[r] = last_hash[r]
        /\ FileCount(snapshots) > 0

\* C9: the run after a run that saved fingerprint h reads exactly h, without
\* the newline and without anything of the record h replaced, and a run
\* started without a record reads the empty string
C9_StoreRoundTrip ==
    \A r \in Procs :
        Compared(r) =>
            /\ (prev.valid /\ prev.result = "Done") => last_hash[r] = prev.hash
            /\ ~pre_record[r].exists => last_hash[r] = <<>>

C9_Witness ==
    \E r \in Procs :
        /\ Compared(r)
        /\ prev.valid /\ prev.result = "Done"
        /\ read_last_hash(prev.record_before) # <<>>
        /\ read_last_hash(prev.record_before) # prev.hash
        /\ last_hash[r] = prev.hash

\* C10: two runs whose documents are equal up to the order of object keys,
\* at any nesting level, compute the same fingerprint
C10_KeyOrderIndependence ==
    \A r \in Procs :
        ( /\ current_hash[r] # <<>>
          /\ prev.valid /\ prev.hash # <<>>
          /\ SameValue(prev.doc, data[r]) )
        => current_hash[r] = prev.hash

C10_Witness ==
    \E r \in Procs :
        /\ current_hash[r] # <<>>
        /\ prev.valid /\ prev.hash = current_hash[r]
        /\ prev.doc = DocNest /\ data[r] = DocNestInner
\* C11: the step in which a run completes save_snapshot leaves, under the
\* name of the current UTC second, a file whose text parses to a value
\* deeply equal to the document the run fetched and hashed
C11_SnapshotFidelity ==
    [][\A r \in Procs :
          (pc[r] = "Persisting" /\ pc'[r] = "PersistingHash") =>
              /\ SameValue(json_load(snapshots'[Timestamp(now)].text), data[r])
              /\ current_hash[r] = calculate_hash(json_load(snapshots'[Timestamp(now)].text))
              /\ data'[r] = data[r]]_vars

C11_Witness ==
    \E r \in Procs : \E n \in SnapshotNames :
        /\ pc[r] = "Done"
        /\ data[r] = DocNest
        /\ SameValue(json_load(snapshots[n].text), DocNest)
        /\ json_load(snapshots[n].text) # DocNest
\* the transitions of the orchestrator's state machine; Persisting covers
\* both calls, and the process ends after a terminal state
ClaimedEdges ==
    { <<"idle", "Fetching">>, <<"Fetching", "Hashing">>, <<"Fetching", "Aborted">>,
      <<"Hashing", "Comparing">>, <<"Comparing", "Unchanged">>,
      <<"Comparing", "Persisting">>, <<"Persisting", "PersistingHash">>,
      <<"PersistingHash", "Done">>, <<"Unchanged", "idle">>, <<"Done", "idle">>,
      <<"Aborted", "idle">> }

\* C12 (as claimed): every step of a run follows Fetching, Hashing,
\* Comparing, then Unchanged or Persisting and Done, a failed fetch goes
\* from Fetching straight to Aborted, and a run ends only in Unchanged,
\* Done or Aborted
C12_StateMachine ==
    [][\A r \in Procs : pc'[r] # pc[r] => <<pc[r], pc'[r]>> \in ClaimedEdges]_vars
\* C13: once a run on document D has ended without failure and every
\* download since has returned D, the record is fingerprint(D), a snapshot
\* of D has been written, and no run that has fetched D reaches Persisting:
\* it writes no snapshot and no fingerprint, and if it ends without failure
\* it ends in Unchanged
C13_Convergence ==
    stable # NoData =>
        /\ Record = calculate_hash(stable)
        /\ \E d \in saved : SameValue(d, stable)
        /\ \A r \in Procs :
              data[r] # NoData =>
                  /\ SameValue(data[r], stable)
                  /\ pc[r] \notin {"Persisting", "PersistingHash", "Done"}
                  /\ nsnap[r] = 0 /\ nhash[r] = 0
                  /\ Compared(r) => pc[r] = "Unchanged"
                  /\ last_hash_file = pre_record[r] /\ snapshots = pre_snapshots[r]

C13_Witness ==
    \E r \in Procs :
        /\ stable # NoData
        /\ pc[r] = "Unchanged"
        /\ prev.valid /\ prev.result = "Aborted"
        /\ started = MaxRuns

\* the run that ended last completed save_snapshot and failed in save_hash
PartialPersist ==
    /\ prev.valid
    /\ prev.error = "IOError writing the fingerprint record"
    /\ prev.nsnap = 1

\* C14 (as claimed): after a run whose save_snapshot completed and whose
\* save_hash failed, the record has the value it had before that run, and
\* the next run on the same document takes the changed branch and writes a
\* further snapshot of it
C14_PartialPersist ==
    PartialPersist =>
        /\ read_last_hash(prev.record_after) = read_last_hash(prev.record_before)
        /\ \A r \in Procs :
              (Compared(r) /\ SameValue(data[r], prev.doc)) =>
                  /\ current_hash[r] # last_hash[r]
                  /\ pc[r] # "Unchanged"
                  /\ pc[r] = "Done" => nsnap[r] = 1

\* run r and the run that ended last both persisted the same document after
\* reading the same stored fingerprint: two snapshot writes and two
\* fingerprint writes for one change
DoublePersist(r) ==
    /\ pc[r] = "Done" /\ nsnap[r] = 1 /\ nhash[r] = 1
    /\ prev.valid /\ prev.result = "Done" /\ prev.nsnap = 1 /\ prev.nhash = 1
    /\ SameValue(prev.doc, data[r])
    /\ prev.last_hash = last_hash[r]

\* C15: the read of the record and the two writes are separate steps, so
\* two runs can both persist one change; this happens only when one of the
\* two was in progress together with another run, never when the runs were
\* serialized
C15_DoublePersistOnlyWhenOverlapping ==
    \A r \in Procs : DoublePersist(r) => (overlapped[r] \/ prev.overlapped)

C15_Witness ==
    \E r \in Procs :
        /\ DoublePersist(r)
        /\ overlapped[r] /\ prev.overlapped
        /\ Record = current_hash[r]
        /\ last_hash[r] # current_hash[r]
====
